---- MODULE Spec2Model ----
(***************************************************************************)
(* Signal processor (src/app.py): a FastAPI relay that validates a trading *)
(* signal, asks the subscriber matcher for chat ids, fans the signal out   *)
(* to three services and aggregates their responses; plus a health probe.  *)
(*                                                                         *)
(* Strings the code computes with (URLs, result keys) are sequences of     *)
(* one-character strings, so that get_full_url, the URL path and the       *)
(* "service_<i>" labels are computed and not assumed.                      *)
(***************************************************************************)
EXTENDS Integers, Sequences, FiniteSets, TLC

(* ------------------------------ bounds -------------------------------- *)

\* Longest list of matched subscribers in a matcher body.
MaxSubs == 2

\* Most slashes added behind a base address or before an endpoint.
MaxSlashes == 2

\* Request slots. Requests share no mutable state (each has its own signal
\* dict, client session and results), so one slot, reused, serves them all.
Requests == {1}

\* The slots of two requests that are handled at the same time: the first is
\* the slot above, the second is taken while the first is in use.
Second == 2

Concurrent == Requests \cup {Second}

(* ------------------------------- state -------------------------------- *)

VARIABLES
    env,        \* os.environ: the service addresses that are set
    started,    \* "init", "serving", or "crashed" (RuntimeError at import)
    mocks,      \* Live, or the fixed behaviour of mocked downstream services
    firstReply, \* reply to the first of two dispatches of one signal
    resolved,   \* a call of get_full_url on its own: arguments and result
    pc,         \* per request: where its handler stands
    inbound,    \* per request: the signal as it arrived
    signal,     \* per request: the signal dict (distribute_signal mutates it)
    urls,       \* per request: the four resolved URLs
    matcher,    \* per request: how the subscriber-matching call ended
    calls,      \* per request: per service, the payloads posted to it
    task,       \* per request: per fan-out task, its state
    responses,  \* per request: per fan-out task, what gather returned
    arrival,    \* per request: the fan-out tasks in the order they settled
    idx,        \* per request: loop index (responses loop, health loop)
    results,    \* per request: the results dict
    keyOf,      \* per request: per fan-out task, the key its entry was put under
    reply,      \* per request: the HTTP response of the handler
    health,     \* per request: health_status
    probed      \* per request: per dependency, how its health probe ended

vars == <<env, started, mocks, firstReply, resolved, pc, inbound, signal, urls, matcher,
          calls, task, responses, arrival, idx, results, keyOf, reply, health, probed>>

(* --------------------------- text helpers ----------------------------- *)

Slash == <<"/">>

Http == <<"h", "t", "t", "p", ":", "/", "/">>

Https == <<"h", "t", "t", "p", "s", ":", "/", "/">>

\* str.startswith
StartsWith(s, p) ==
    /\ Len(s) >= Len(p)
    /\ SubSeq(s, 1, Len(p)) = p

\* str.rstrip('/')
RECURSIVE RStrip(_)
RStrip(s) ==
    IF s # <<>> /\ s[Len(s)] = "/" THEN RStrip(SubSeq(s, 1, Len(s) - 1)) ELSE s

\* str.lstrip('/')
RECURSIVE LStrip(_)
LStrip(s) ==
    IF s # <<>> /\ s[1] = "/" THEN LStrip(Tail(s)) ELSE s

\* A join that keeps the slashes the base ends with.
get_full_url_unstripped(url, endpoint) ==
    LET u == IF StartsWith(url, Http) \/ StartsWith(url, Https)
             THEN url
             ELSE Https \o url
    IN  u \o Slash \o LStrip(endpoint)

\* get_full_url(url, endpoint)
get_full_url(url, endpoint) ==
    LET u == IF StartsWith(url, Http) \/ StartsWith(url, Https)
             THEN url
             ELSE Https \o url
    IN  RStrip(u) \o Slash \o LStrip(endpoint)

\* The part of s from its first "/" on ("" when it has none).
RECURSIVE FromFirstSlash(_)
FromFirstSlash(s) ==
    IF s = <<>> THEN <<>>
    ELSE IF s[1] = "/" THEN s
    ELSE FromFirstSlash(Tail(s))

\* resp.url.path: what follows scheme and host ("/" when nothing does).
UrlPath(u) ==
    LET rest == IF StartsWith(u, Https) THEN SubSeq(u, Len(Https) + 1, Len(u))
                ELSE IF StartsWith(u, Http) THEN SubSeq(u, Len(Http) + 1, Len(u))
                ELSE u
        p == FromFirstSlash(rest)
    IN  IF p = <<>> THEN Slash ELSE p

\* str(i) for the task indices 0..9
Digit(i) ==
    <<SubSeq(<<"0", "1", "2", "3", "4", "5", "6", "7", "8", "9">>, i + 1, i + 1)[1]>>

\* A label numbered by a counter that keeps running across requests.
TransientKey(i) ==
    <<"s", "e", "r", "v", "i", "c", "e", "_">>
        \o Digit(IF firstReply.code = 0 THEN i ELSE i + 3)

\* f"service_{i}"
ServiceKey(i) ==
    <<"s", "e", "r", "v", "i", "c", "e", "_">> \o Digit(i)

(* ---------------------- services and configuration -------------------- *)

\* The logical services, in the order health_check walks them.
ServiceOrder == <<"telegram", "ai_signal", "news_ai", "subscriber_matcher">>

Services == {ServiceOrder[n] : n \in 1..Len(ServiceOrder)}

\* The fan-out tasks, by their index in the tasks list.
TaskService == [i \in 0..2 |->
    IF i = 0 THEN "ai_signal" ELSE IF i = 1 THEN "news_ai" ELSE "telegram"]

Tasks == DOMAIN TaskService

FanoutServices == {TaskService[i] : i \in Tasks}

EnvVar == [s \in Services |->
    CASE s = "telegram" -> "TELEGRAM_SERVICE_URL"
      [] s = "ai_signal" -> "AI_SIGNAL_SERVICE_URL"
      [] s = "news_ai" -> "NEWS_AI_SERVICE_URL"
      [] s = "subscriber_matcher" -> "SUBSCRIBER_MATCHER_URL"]

required_env_vars == {EnvVar[s] : s \in Services}

\* The endpoint distribute_signal posts to on each service.
Endpoint == [s \in Services |->
    CASE s = "telegram" -> <<"s", "e", "n", "d">>
      [] s = "ai_signal" -> <<"a", "n", "a", "l", "y", "z", "e">>
      [] s = "news_ai" -> <<"a", "n", "a", "l", "y", "z", "e">>
      [] s = "subscriber_matcher" -> <<"m", "a", "t", "c", "h">>]

HealthEndpoint == <<"h", "e", "a", "l", "t", "h">>

\* Two complete environments: bare hosts (with and without scheme and
\* trailing slash), and one whose AI address carries a path prefix.
EnvHosts == [v \in required_env_vars |->
    CASE v = "TELEGRAM_SERVICE_URL" -> <<"t">>
      [] v = "AI_SIGNAL_SERVICE_URL" -> Https \o <<"a", "/">>
      [] v = "NEWS_AI_SERVICE_URL" -> <<"n">>
      [] v = "SUBSCRIBER_MATCHER_URL" -> Http \o <<"m">>]

EnvPrefixed == [EnvHosts EXCEPT !["AI_SIGNAL_SERVICE_URL"] = <<"a", "/", "v", "1">>]

CompleteEnvs == {EnvHosts, EnvPrefixed}

\* os.environ restricted to the variables in keep.
Restrict(e, keep) == [v \in keep |-> e[v]]

\* Environments with one variable absent or empty.
BrokenEnvs ==
    {Restrict(EnvHosts, required_env_vars \ {v}) : v \in required_env_vars}
    \cup {[EnvHosts EXCEPT ![v] = <<>>] : v \in required_env_vars}

\* Every environment: any subset of the variables set, any one of them empty.
AnyEnvs ==
    {Restrict(e, keep) : e \in CompleteEnvs, keep \in SUBSET required_env_vars}
    \cup BrokenEnvs

\* bool(os.getenv(var))
EnvSet(e, var) == var \in DOMAIN e /\ e[var] # <<>>

(* ------------------------------ signals ------------------------------- *)

\* required_fields, in the order process_signal checks them.
required_fields == <<"symbol", "action", "price", "stopLoss", "takeProfit", "interval">>

RequiredSet == {required_fields[n] : n \in 1..Len(required_fields)}

\* A complete inbound signal.
FullSignal == [k \in RequiredSet |->
    CASE k = "symbol" -> "EURUSD"
      [] k = "action" -> "BUY"
      [] k = "price" -> "1.10"
      [] k = "stopLoss" -> "1.05"
      [] k = "takeProfit" -> "1.20"
      [] k = "interval" -> "1h"]

\* dict with key k set to v (insert or overwrite).
DictSet(d, k, v) == (k :> v) @@ d

\* dict without key k.
DictDel(d, k) == [x \in DOMAIN d \ {k} |-> d[x]]

\* The chat ids a client may already have put into the signal.
ClientChatIds == <<7>>

\* The signals a client posts: complete, complete with its own chat_ids,
\* with one required field missing, and empty.
SignalInputs ==
    {FullSignal, DictSet(FullSignal, "chat_ids", ClientChatIds)}
    \cup {DictDel(FullSignal, f) : f \in RequiredSet}
    \cup {DictDel(DictDel(FullSignal, "symbol"), "price")}
    \cup {<<>>}

\* The required fields a signal lacks, in checking order.
MissingFields(sig) ==
    SelectSeq(required_fields, LAMBDA f : f \notin DOMAIN sig)

(* ----------------------- downstream behaviour ------------------------- *)

\* Sequences over S of length at most n.
SeqsUpTo(S, n) == UNION {[1..k -> S] : k \in 0..n}

\* Subscriber records of a matcher body: with and without a chat_id.
SubscriberRecords == {[chat_id |-> 101], [user |-> "u5"]}

\* Parsed matcher bodies: with a matched_subscribers list, and without one.
MatcherBodies ==
    {[matched_subscribers |-> l] : l \in SeqsUpTo(SubscriberRecords, MaxSubs)}
    \cup {[detail |-> "no match"]}

NoOutcome == [kind |-> "none"]

TransportError == [kind |-> "exception", msg |-> "Cannot connect to host"]

\* What the matcher call can end in: a transport exception, a 200 with a
\* parsed body, a 200 whose body is not JSON, a non-200 response.
MatcherOutcomes ==
    {TransportError}
    \cup {[kind |-> "response", status |-> 200, json |-> TRUE, body |-> b] :
            b \in MatcherBodies}
    \cup {[kind |-> "response", status |-> 200, json |-> FALSE, body |-> [raw |-> "text"]],
          [kind |-> "response", status |-> 500, json |-> FALSE, body |-> [raw |-> "text"]]}

\* What a fan-out call can end in: a transport exception, or a response with
\* a status and a body that can or cannot be read (resp.text()), whose text is
\* or is not JSON (parses), and of which resp.json() returns or raises (json):
\* it raises on text that is not JSON, and on any text under a Content-Type
\* other than application/json.
FanoutOutcomes ==
    {TransportError}
    \cup {[kind |-> "response", status |-> 200, readable |-> TRUE, parses |-> TRUE,
           json |-> TRUE],
          [kind |-> "response", status |-> 200, readable |-> TRUE, parses |-> TRUE,
           json |-> FALSE],
          [kind |-> "response", status |-> 200, readable |-> TRUE, parses |-> FALSE,
           json |-> FALSE],
          [kind |-> "response", status |-> 500, readable |-> TRUE, parses |-> FALSE,
           json |-> FALSE],
          [kind |-> "response", status |-> 200, readable |-> FALSE, parses |-> FALSE,
           json |-> FALSE],
          [kind |-> "response", status |-> 500, readable |-> FALSE, parses |-> FALSE,
           json |-> FALSE]}

\* What a health probe can end in.
HealthOutcomes ==
    {[kind |-> "exception", msg |-> "Cannot connect to host"],
     [kind |-> "exception", msg |-> "Timeout"],
     [kind |-> "response", status |-> 200],
     [kind |-> "response", status |-> 404],
     [kind |-> "response", status |-> 503]}

\* Downstream services are live (any outcome, chosen when a call settles) ...
Live == [kind |-> "live"]

\* ... or mocked: each service answers every call in the same way.
Mocks ==
    [kind : {"mock"}, matcher : MatcherOutcomes, fanout : [Tasks -> FanoutOutcomes]]

\* ... or scripted: each request has its own fixed answers, and the two
\* requests differ in the matcher's answer and in the fan-out answers.
FanoutScripts ==
    {[i \in Tasks |-> [kind |-> "response", status |-> 200, readable |-> TRUE,
                       parses |-> TRUE, json |-> TRUE]],
     [i \in Tasks |->
        IF i = 0 THEN TransportError
        ELSE IF i = 1 THEN [kind |-> "response", status |-> 500, readable |-> TRUE,
                            parses |-> FALSE, json |-> FALSE]
        ELSE [kind |-> "response", status |-> 200, readable |-> TRUE,
              parses |-> FALSE, json |-> FALSE]]}

MatcherScripts ==
    {TransportError,
     [kind |-> "response", status |-> 200, json |-> TRUE,
      body |-> [matched_subscribers |-> <<[chat_id |-> 101]>>]]}

\* Under a script a health probe ends in one of two ways.
HealthScript ==
    {[kind |-> "exception", msg |-> "Timeout"], [kind |-> "response", status |-> 200]}

Scripts ==
    {m \in [kind : {"scripted"}, matcher : [Concurrent -> MatcherScripts],
            fanout : [Concurrent -> FanoutScripts], health : {HealthScript}] :
        \A q \in Concurrent : \A r \in Concurrent :
            q # r => m.matcher[q] # m.matcher[r] /\ m.fanout[q] # m.fanout[r]}

\* resp.json() of service s / resp.text() of service s / str(e)
JsonBody(s) == [json_of |-> s]

BodyText(s) == "body text of " \o s

ExcText(s, o) == o.msg \o " " \o s

JsonErrorText(s) == "Attempt to decode JSON with unexpected mimetype: " \o s

ReadErrorText(s) == "Response payload is not completed: " \o s

(* --------------------------- initial state ---------------------------- *)

NoReply == [code |-> 0]

NoUrls == [s \in Services |-> <<>>]

NoCalls == [s \in Services |-> <<>>]

NoHealth == [status |-> "none"]

\* get_full_url has not been called on its own.
NoResolved == [done |-> FALSE]

\* Per-request state of an idle slot.
IdleSlots ==
    /\ pc = [r \in Concurrent |-> "idle"]
    /\ inbound = [r \in Concurrent |-> <<>>]
    /\ signal = [r \in Concurrent |-> <<>>]
    /\ urls = [r \in Concurrent |-> NoUrls]
    /\ matcher = [r \in Concurrent |-> NoOutcome]
    /\ calls = [r \in Concurrent |-> NoCalls]
    /\ task = [r \in Concurrent |-> [i \in Tasks |-> "none"]]
    /\ responses = [r \in Concurrent |-> [i \in Tasks |-> NoOutcome]]
    /\ arrival = [r \in Concurrent |-> <<>>]
    /\ idx = [r \in Concurrent |-> 0]
    /\ results = [r \in Concurrent |-> <<>>]
    /\ keyOf = [r \in Concurrent |-> [i \in Tasks |-> <<>>]]
    /\ reply = [r \in Concurrent |-> NoReply]
    /\ health = [r \in Concurrent |-> NoHealth]
    /\ probed = [r \in Concurrent |-> <<>>]

\* The process before the module is imported, under any environment.
Init ==
    /\ env \in CompleteEnvs \cup BrokenEnvs
    /\ started = "init"
    /\ mocks = Live
    /\ firstReply = NoReply
    /\ resolved = NoResolved
    /\ IdleSlots

\* An import that does not look at the environment.
StartupUnchecked ==
    /\ started = "init"
    /\ started' = "serving"
    /\ UNCHANGED <<env, mocks, resolved, firstReply, pc, inbound, signal, urls, matcher, calls,
                   task, responses, arrival, idx, results, keyOf, reply, health, probed>>

\* Lines 24-26: import fails unless every required variable is set.
Startup ==
    /\ started = "init"
    /\ started' = IF \A v \in required_env_vars : EnvSet(env, v)
                  THEN "serving"
                  ELSE "crashed"
    /\ UNCHANGED <<env, mocks, resolved, firstReply, pc, inbound, signal, urls, matcher, calls,
                   task, responses, arrival, idx, results, keyOf, reply, health, probed>>

(* ----------------------------- POST /signal --------------------------- *)

\* HTTPException(status_code, detail), and the response FastAPI makes of it.
HTTPException(code, detail) == [code |-> code, detail |-> detail]

\* str(e) of an HTTPException: "<code>: <detail>" where Starlette defines
\* __str__, the empty string where it does not.
StrHTTPException(e) == {"", ToString(e.code) \o ": " \o e.detail}

\* except Exception as e: raise HTTPException(status_code=500, detail=str(e))
Rewrap(msgs) == {HTTPException(500, m) : m \in msgs}

\* What the matcher, or fan-out task i, may answer.
MatcherChoices(r) ==
    IF mocks.kind = "mock" THEN {mocks.matcher}
    ELSE IF mocks.kind = "scripted" THEN {mocks.matcher[r]}
    ELSE MatcherOutcomes

FanoutChoices(r, i) ==
    IF mocks.kind = "mock" THEN {mocks.fanout[i]}
    ELSE IF mocks.kind = "scripted" THEN {mocks.fanout[r][i]}
    ELSE FanoutOutcomes

HealthChoices == IF mocks.kind = "scripted" THEN mocks.health ELSE HealthOutcomes

\* The handler is entered with the parsed JSON body.
process_signal_receive(r) ==
    /\ started = "serving"
    /\ pc[r] = "idle"
    /\ \E sig \in SignalInputs :
        /\ inbound' = [inbound EXCEPT ![r] = sig]
        /\ signal' = [signal EXCEPT ![r] = sig]
    /\ pc' = [pc EXCEPT ![r] = "validate"]
    /\ UNCHANGED <<env, started, mocks, resolved, firstReply, urls, matcher, calls, task,
                   responses, arrival, idx, results, keyOf, reply, health, probed>>

\* The handler without its required-field check.
process_signal_validate_unchecked(r) ==
    /\ pc[r] = "validate"
    /\ pc' = [pc EXCEPT ![r] = "dispatch"]
    /\ UNCHANGED <<env, started, mocks, resolved, firstReply, inbound, signal, urls, matcher,
                   calls, task, responses, arrival, idx, results, keyOf, reply, health, probed>>

\* Lines 117-122 and 130-132: the first missing field raises
\* HTTPException(400), which the handler's own except Exception catches
\* and raises again as a 500.
process_signal_validate(r) ==
    /\ pc[r] = "validate"
    /\ LET missing == MissingFields(signal[r])
       IN  IF missing # <<>>
           THEN /\ \E e \in Rewrap(StrHTTPException(HTTPException(400,
                            "Missing required field: " \o missing[1]))) :
                        reply' = [reply EXCEPT ![r] = e]
                /\ pc' = [pc EXCEPT ![r] = "replied"]
           ELSE /\ pc' = [pc EXCEPT ![r] = "dispatch"]
                /\ UNCHANGED reply
    /\ UNCHANGED <<env, started, mocks, resolved, firstReply, inbound, signal, urls, matcher,
                   calls, task, responses, arrival, idx, results, keyOf, health, probed>>

\* A dispatch that posts to the matcher and, without awaiting its response,
\* hands the three fan-out requests to gather.
distribute_signal_begin_unordered(r) ==
    /\ pc[r] = "dispatch"
    /\ \A v \in required_env_vars : v \in DOMAIN env
    /\ urls' = [urls EXCEPT ![r] =
            [s \in Services |-> get_full_url(env[EnvVar[s]], Endpoint[s])]]
    /\ calls' = [calls EXCEPT ![r]["subscriber_matcher"] = Append(@, signal[r])]
    /\ task' = [task EXCEPT ![r] = [i \in Tasks |-> "scheduled"]]
    /\ pc' = [pc EXCEPT ![r] = "gather"]
    /\ UNCHANGED <<env, started, mocks, resolved, firstReply, inbound, signal, matcher,
                   responses, arrival, idx, results, keyOf, reply, health, probed>>

\* Lines 40-50: the URLs are resolved (a variable that is not set makes
\* get_full_url raise on None: lines 110-112, then 130-132), the session is
\* opened and the signal is posted to the subscriber matcher.
distribute_signal_begin(r) ==
    /\ pc[r] = "dispatch"
    /\ IF \E v \in required_env_vars : v \notin DOMAIN env
       THEN /\ \E e \in Rewrap(StrHTTPException(HTTPException(500,
                        "'NoneType' object has no attribute 'startswith'"))) :
                    reply' = [reply EXCEPT ![r] = e]
            /\ pc' = [pc EXCEPT ![r] = "replied"]
            /\ UNCHANGED <<urls, calls>>
       ELSE /\ urls' = [urls EXCEPT ![r] =
                    [s \in Services |-> get_full_url(env[EnvVar[s]], Endpoint[s])]]
            /\ calls' = [calls EXCEPT ![r]["subscriber_matcher"] = Append(@, signal[r])]
            /\ pc' = [pc EXCEPT ![r] = "matching"]
            /\ UNCHANGED reply
    /\ UNCHANGED <<env, started, mocks, resolved, firstReply, inbound, signal, matcher, task,
                   responses, arrival, idx, results, keyOf, health, probed>>

\* subscriber_data.get('matched_subscribers', [])
MatchedSubscribers(body) ==
    IF "matched_subscribers" \in DOMAIN body THEN body.matched_subscribers ELSE <<>>

\* Lines 51-54 run to the end: status 200, resp.json() parses, and every
\* matched subscriber has a chat_id.
MatchSucceeds(o) ==
    /\ o.kind = "response"
    /\ o.status = 200
    /\ o.json
    /\ \A n \in 1..Len(MatchedSubscribers(o.body)) :
           "chat_id" \in DOMAIN MatchedSubscribers(o.body)[n]

\* [sub['chat_id'] for sub in chat_ids]
ChatIds(o) ==
    [n \in 1..Len(MatchedSubscribers(o.body)) |-> MatchedSubscribers(o.body)[n].chat_id]

\* Enrichment that falls back to an empty chat_ids list when matching fails.
EnrichWithDefault(sig, o) ==
    DictSet(sig, "chat_ids", IF MatchSucceeds(o) THEN ChatIds(o) ELSE <<>>)

\* Lines 50-59: the signal after the matcher call ended in o.
Enrich(sig, o) ==
    IF MatchSucceeds(o) THEN DictSet(sig, "chat_ids", ChatIds(o)) ELSE sig

\* Lines 50-59: the matcher call settles; every failure is logged and dropped.
distribute_signal_match(r) ==
    /\ pc[r] = "matching"
    /\ \E o \in MatcherChoices(r) :
        /\ matcher' = [matcher EXCEPT ![r] = o]
        /\ signal' = [signal EXCEPT ![r] = Enrich(signal[r], o)]
    /\ pc' = [pc EXCEPT ![r] = "fanout"]
    /\ UNCHANGED <<env, started, mocks, resolved, firstReply, inbound, urls, calls, task,
                   responses, arrival, idx, results, keyOf, reply, health, probed>>

\* Lines 62-86: the three requests are built and handed to asyncio.gather,
\* which schedules one task for each.
distribute_signal_gather(r) ==
    /\ pc[r] = "fanout"
    /\ task' = [task EXCEPT ![r] = [i \in Tasks |-> "scheduled"]]
    /\ pc' = [pc EXCEPT ![r] = "gather"]
    /\ UNCHANGED <<env, started, mocks, resolved, firstReply, inbound, signal, urls, matcher,
                   calls, responses, arrival, idx, results, keyOf, reply, health, probed>>

\* The event loop runs the scheduled tasks in order; a task's first step
\* serialises the signal and sends the request.
task_start(r, i) ==
    /\ pc[r] = "gather"
    /\ task[r][i] = "scheduled"
    /\ \A j \in Tasks : j < i => task[r][j] # "scheduled"
    /\ calls' = [calls EXCEPT ![r][TaskService[i]] = Append(@, signal[r])]
    /\ task' = [task EXCEPT ![r][i] = "pending"]
    /\ UNCHANGED <<env, started, mocks, resolved, firstReply, pc, inbound, signal, urls,
                   matcher, responses, arrival, idx, results, keyOf, reply, health, probed>>

\* What gather returns for task i when its call ended in o.
Settled(r, i, o) ==
    IF o.kind = "exception"
    THEN [kind |-> "exception", msg |-> ExcText(TaskService[i], o)]
    ELSE [kind |-> "response", status |-> o.status, readable |-> o.readable,
          parses |-> o.parses, json |-> o.json, svc |-> TaskService[i],
          url |-> urls[r][TaskService[i]]]

\* A call that is sent once more after it raised.
task_settle_retrying(r, i) ==
    /\ pc[r] = "gather"
    /\ task[r][i] = "pending"
    /\ \E o \in FanoutChoices(r, i) :
        /\ o.kind = "response" => \A j \in Tasks : task[r][j] # "scheduled"
        /\ IF o.kind = "exception" /\ Len(calls[r][TaskService[i]]) = 1
           THEN /\ calls' = [calls EXCEPT ![r][TaskService[i]] = Append(@, signal[r])]
                /\ UNCHANGED <<responses, arrival, task, pc, idx>>
           ELSE /\ responses' = [responses EXCEPT ![r][i] = Settled(r, i, o)]
                /\ arrival' = [arrival EXCEPT ![r] = Append(@, i)]
                /\ task' = [task EXCEPT ![r][i] = "settled"]
                /\ IF \A j \in Tasks \ {i} : task[r][j] = "settled"
                   THEN /\ pc' = [pc EXCEPT ![r] = "collect"]
                        /\ idx' = [idx EXCEPT ![r] = 0]
                   ELSE UNCHANGED <<pc, idx>>
                /\ UNCHANGED calls
    /\ UNCHANGED <<env, started, mocks, resolved, firstReply, inbound, signal, urls, matcher,
                   results, keyOf, reply, health, probed>>

\* A join that gives up at the first exception (gather without
\* return_exceptions): the exception leaves distribute_signal at once.
task_settle_fail_fast(r, i) ==
    /\ pc[r] = "gather"
    /\ task[r][i] = "pending"
    /\ \E o \in FanoutChoices(r, i) :
        /\ o.kind = "response" => \A j \in Tasks : task[r][j] # "scheduled"
        /\ responses' = [responses EXCEPT ![r][i] = Settled(r, i, o)]
        /\ IF o.kind = "exception"
           THEN /\ pc' = [pc EXCEPT ![r] = "replied"]
                /\ reply' = [reply EXCEPT ![r] = HTTPException(500, o.msg)]
                /\ UNCHANGED idx
           ELSE /\ IF \A j \in Tasks \ {i} : task[r][j] = "settled"
                   THEN /\ pc' = [pc EXCEPT ![r] = "collect"]
                        /\ idx' = [idx EXCEPT ![r] = 0]
                   ELSE UNCHANGED <<pc, idx>>
                /\ UNCHANGED reply
    /\ arrival' = [arrival EXCEPT ![r] = Append(@, i)]
    /\ task' = [task EXCEPT ![r][i] = "settled"]
    /\ UNCHANGED <<env, started, mocks, resolved, firstReply, inbound, signal, urls, matcher,
                   calls, results, keyOf, health, probed>>

\* A task settles, in any order; a response needs network I/O, which the
\* loop polls only after every scheduled task had its first step. gather
\* (return_exceptions=True) returns when all three have settled.
task_settle(r, i) ==
    /\ pc[r] = "gather"
    /\ task[r][i] = "pending"
    /\ \E o \in FanoutChoices(r, i) :
        /\ o.kind = "response" => \A j \in Tasks : task[r][j] # "scheduled"
        /\ responses' = [responses EXCEPT ![r][i] = Settled(r, i, o)]
    /\ arrival' = [arrival EXCEPT ![r] = Append(@, i)]
    /\ task' = [task EXCEPT ![r][i] = "settled"]
    /\ IF \A j \in Tasks \ {i} : task[r][j] = "settled"
       THEN /\ pc' = [pc EXCEPT ![r] = "collect"]
            /\ idx' = [idx EXCEPT ![r] = 0]
       ELSE UNCHANGED <<pc, idx>>
    /\ UNCHANGED <<env, started, mocks, resolved, firstReply, inbound, signal, urls, matcher,
                   calls, results, keyOf, reply, health, probed>>

\* A key that is the URL path for every response.
ResultKeyOfResponse(i, resp) ==
    IF resp.kind = "exception" THEN ServiceKey(i) ELSE UrlPath(resp.url)

\* Lines 91-106: the key and the value one loop iteration stores.
ResultKey(i, resp) ==
    IF resp.kind = "exception" THEN ServiceKey(i)
    ELSE IF ~resp.readable THEN ServiceKey(i)
    ELSE IF resp.status = 200 /\ ~resp.json THEN ServiceKey(i)
    ELSE UrlPath(resp.url)

ResultValue(i, resp) ==
    IF resp.kind = "exception" THEN [error |-> resp.msg]
    ELSE IF ~resp.readable THEN [error |-> ReadErrorText(resp.svc)]
    ELSE IF resp.status = 200
         THEN IF resp.json THEN JsonBody(resp.svc)
              ELSE [error |-> JsonErrorText(resp.svc)]
    ELSE [error |-> BodyText(resp.svc)]

\* A loop that takes the responses in the order they arrived in.
distribute_signal_collect_by_arrival(r) ==
    /\ pc[r] = "collect"
    /\ idx[r] \in Tasks
    /\ LET i == arrival[r][idx[r] + 1]
           resp == responses[r][i]
       IN  /\ results' = [results EXCEPT ![r] =
                    DictSet(@, ResultKey(i, resp), ResultValue(i, resp))]
           /\ keyOf' = [keyOf EXCEPT ![r][i] = ResultKey(i, resp)]
    /\ idx' = [idx EXCEPT ![r] = @ + 1]
    /\ pc' = [pc EXCEPT ![r] = IF idx[r] + 1 \in Tasks THEN "collect" ELSE "return"]
    /\ UNCHANGED <<env, started, mocks, resolved, firstReply, inbound, signal, urls, matcher,
                   calls, task, responses, arrival, reply, health, probed>>

\* Lines 90-106: one iteration of the loop over responses.
distribute_signal_collect(r) ==
    /\ pc[r] = "collect"
    /\ idx[r] \in Tasks
    /\ LET i == idx[r]
           resp == responses[r][i]
       IN  /\ results' = [results EXCEPT ![r] =
                    DictSet(@, ResultKey(i, resp), ResultValue(i, resp))]
           /\ keyOf' = [keyOf EXCEPT ![r][i] = ResultKey(i, resp)]
    /\ idx' = [idx EXCEPT ![r] = @ + 1]
    /\ pc' = [pc EXCEPT ![r] = IF idx[r] + 1 \in Tasks THEN "collect" ELSE "return"]
    /\ UNCHANGED <<env, started, mocks, resolved, firstReply, inbound, signal, urls, matcher,
                   calls, task, responses, arrival, reply, health, probed>>

\* Lines 108 and 125-129: results is returned and wrapped.
process_signal_return(r) ==
    /\ pc[r] = "return"
    /\ reply' = [reply EXCEPT ![r] =
            [code |-> 200, status |-> "success", results |-> results[r]]]
    /\ pc' = [pc EXCEPT ![r] = "replied"]
    /\ UNCHANGED <<env, started, mocks, resolved, firstReply, inbound, signal, urls, matcher,
                   calls, task, responses, arrival, idx, results, keyOf, health, probed>>

\* The steps of one POST /signal when the matcher is called synchronously:
\* no handler runs while a matcher call is outstanding.
SignalStepBlocking(r) ==
    /\ \A q \in Concurrent \ {r} : pc[q] # "matching"
    /\ \/ process_signal_receive(r)
       \/ process_signal_validate(r)
       \/ distribute_signal_begin(r)
       \/ distribute_signal_match(r)
       \/ distribute_signal_gather(r)
       \/ \E i \in Tasks : task_start(r, i)
       \/ \E i \in Tasks : task_settle(r, i)
       \/ distribute_signal_collect(r)
       \/ process_signal_return(r)

\* The steps of one POST /signal.
SignalStep(r) ==
    \/ process_signal_receive(r)
    \/ process_signal_validate(r)
    \/ distribute_signal_begin(r)
    \/ distribute_signal_match(r)
    \/ distribute_signal_gather(r)
    \/ \E i \in Tasks : task_start(r, i)
    \/ \E i \in Tasks : task_settle(r, i)
    \/ distribute_signal_collect(r)
    \/ process_signal_return(r)

\* The response is sent; the request's state is discarded.
request_done(r) ==
    /\ pc[r] \in {"replied", "health_replied"}
    /\ pc' = [pc EXCEPT ![r] = "idle"]
    /\ inbound' = [inbound EXCEPT ![r] = <<>>]
    /\ signal' = [signal EXCEPT ![r] = <<>>]
    /\ urls' = [urls EXCEPT ![r] = NoUrls]
    /\ matcher' = [matcher EXCEPT ![r] = NoOutcome]
    /\ calls' = [calls EXCEPT ![r] = NoCalls]
    /\ task' = [task EXCEPT ![r] = [i \in Tasks |-> "none"]]
    /\ responses' = [responses EXCEPT ![r] = [i \in Tasks |-> NoOutcome]]
    /\ arrival' = [arrival EXCEPT ![r] = <<>>]
    /\ idx' = [idx EXCEPT ![r] = 0]
    /\ results' = [results EXCEPT ![r] = <<>>]
    /\ keyOf' = [keyOf EXCEPT ![r] = [i \in Tasks |-> <<>>]]
    /\ reply' = [reply EXCEPT ![r] = NoReply]
    /\ health' = [health EXCEPT ![r] = NoHealth]
    /\ probed' = [probed EXCEPT ![r] = <<>>]
    /\ UNCHANGED <<env, started, mocks, resolved, firstReply>>

(* ------------------------------ GET /health --------------------------- *)

Skipped == [kind |-> "skipped"]

\* Lines 137-141: health_status as the handler creates it.
health_check_start(r) ==
    /\ started = "serving"
    /\ pc[r] = "idle"
    /\ health' = [health EXCEPT ![r] =
            [status |-> "healthy", service |-> "signal-processor", dependencies |-> <<>>]]
    /\ idx' = [idx EXCEPT ![r] = 1]
    /\ pc' = [pc EXCEPT ![r] = "health"]
    /\ UNCHANGED <<env, started, mocks, resolved, firstReply, inbound, signal, urls, matcher,
                   calls, task, responses, arrival, results, keyOf, reply, probed>>

\* A status string that drops the response code.
DependencyStatusNoCode(o) ==
    IF o.kind = "skipped" THEN "missing_url"
    ELSE IF o.kind = "exception" THEN "error_" \o o.msg
    ELSE IF o.status = 200 THEN "healthy"
    ELSE "unhealthy"

\* Lines 152, 160, 162, 165: the string stored for a dependency.
DependencyStatus(o) ==
    IF o.kind = "skipped" THEN "missing_url"
    ELSE IF o.kind = "exception" THEN "error_" \o o.msg
    ELSE IF o.status = 200 THEN "healthy"
    ELSE "unhealthy_" \o ToString(o.status)

\* A composite status that a probe's exception does not degrade.
CompositeStatusIgnoringErrors(old, o) ==
    IF o.kind = "exception" \/ (o.kind = "response" /\ o.status = 200)
    THEN old
    ELSE "degraded"

\* Lines 153, 163, 166: the composite status after a dependency ended in o.
CompositeStatus(old, o) ==
    IF o.kind = "response" /\ o.status = 200 THEN old ELSE "degraded"

\* Lines 144-166: one iteration of the loop over the dependencies: the
\* address is read, and if set, probed with GET <base>/health.
health_check_probe(r) ==
    /\ pc[r] = "health"
    /\ idx[r] \in 1..Len(ServiceOrder)
    /\ LET s == ServiceOrder[idx[r]]
           outcomes ==
               IF ~EnvSet(env, EnvVar[s])
               THEN {Skipped}
               ELSE {[kind |-> o.kind, status |-> o.status, msg |-> o.msg,
                      url |-> get_full_url(env[EnvVar[s]], HealthEndpoint)] :
                        o \in {[kind |-> h.kind,
                                status |-> IF h.kind = "response" THEN h.status ELSE 0,
                                msg |-> IF h.kind = "exception" THEN h.msg ELSE ""] :
                                  h \in HealthChoices}}
       IN  \E o \in outcomes :
            /\ health' = [health EXCEPT
                    ![r].dependencies = DictSet(@, s, DependencyStatus(o)),
                    ![r].status = CompositeStatus(@, o)]
            /\ probed' = [probed EXCEPT ![r] = DictSet(@, s, o)]
    /\ idx' = [idx EXCEPT ![r] = @ + 1]
    /\ pc' = [pc EXCEPT ![r] =
            IF idx[r] = Len(ServiceOrder) THEN "health_return" ELSE "health"]
    /\ UNCHANGED <<env, started, mocks, resolved, firstReply, inbound, signal, urls, matcher,
                   calls, task, responses, arrival, results, keyOf, reply>>

\* Line 168: health_status is returned.
health_check_return(r) ==
    /\ pc[r] = "health_return"
    /\ reply' = [reply EXCEPT ![r] =
            [code |-> 200, status |-> health[r].status, service |-> health[r].service,
             dependencies |-> health[r].dependencies]]
    /\ pc' = [pc EXCEPT ![r] = "health_replied"]
    /\ UNCHANGED <<env, started, mocks, resolved, firstReply, inbound, signal, urls, matcher,
                   calls, task, responses, arrival, idx, results, keyOf, health, probed>>

\* The steps of one GET /health.
HealthStep(r) ==
    \/ health_check_start(r)
    \/ health_check_probe(r)
    \/ health_check_return(r)

(* --------------------------- specifications --------------------------- *)

\* The server: started under any environment, then serving requests.
Next ==
    \/ Startup
    \/ \E r \in Requests : SignalStep(r)
    \/ \E r \in Requests : HealthStep(r)
    \/ \E r \in Requests : request_done(r)

Spec == Init /\ [][Next]_vars

\* health_check called under every environment: the module is imported under a
\* complete one, which the caller then changes before calling the handler.
HealthInit ==
    /\ env \in AnyEnvs
    /\ started = "serving"
    /\ mocks = Live
    /\ firstReply = NoReply
    /\ resolved = NoResolved
    /\ IdleSlots

HealthNext ==
    \/ \E r \in Requests : HealthStep(r)
    \/ \E r \in Requests : request_done(r)

HealthSpec == HealthInit /\ [][HealthNext]_vars

\* The same signal is posted a second time: as the client sent it, or as the
\* dict the first dispatch left (with the chat_ids it added).
post_again(r) ==
    /\ pc[r] = "replied"
    /\ firstReply = NoReply
    /\ firstReply' = reply[r]
    /\ \E sig \in {inbound[r], signal[r]} :
        /\ inbound' = [inbound EXCEPT ![r] = sig]
        /\ signal' = [signal EXCEPT ![r] = sig]
    /\ pc' = [pc EXCEPT ![r] = "validate"]
    /\ urls' = [urls EXCEPT ![r] = NoUrls]
    /\ matcher' = [matcher EXCEPT ![r] = NoOutcome]
    /\ calls' = [calls EXCEPT ![r] = NoCalls]
    /\ task' = [task EXCEPT ![r] = [i \in Tasks |-> "none"]]
    /\ responses' = [responses EXCEPT ![r] = [i \in Tasks |-> NoOutcome]]
    /\ arrival' = [arrival EXCEPT ![r] = <<>>]
    /\ idx' = [idx EXCEPT ![r] = 0]
    /\ results' = [results EXCEPT ![r] = <<>>]
    /\ keyOf' = [keyOf EXCEPT ![r] = [i \in Tasks |-> <<>>]]
    /\ reply' = [reply EXCEPT ![r] = NoReply]
    /\ UNCHANGED <<env, started, mocks, resolved, health, probed>>

\* One signal dispatched twice against mocked downstream services that answer
\* both dispatches in the same way.
TwiceInit ==
    /\ env \in CompleteEnvs
    /\ started = "serving"
    /\ mocks \in Mocks
    /\ firstReply = NoReply
    /\ resolved = NoResolved
    /\ IdleSlots

TwiceNext ==
    \/ \E r \in Requests : SignalStep(r)
    \/ \E r \in Requests : post_again(r)

TwiceSpec == TwiceInit /\ [][TwiceNext]_vars

\* Two requests in flight at once against scripted services: a POST /signal
\* in the first slot, whose downstream calls may stay unanswered for ever, and
\* a POST /signal or a GET /health in the second, whose handler the event loop
\* keeps running and whose downstream calls are answered.
ConcInit ==
    /\ env = EnvHosts
    /\ started = "serving"
    /\ mocks \in Scripts
    /\ firstReply = NoReply
    /\ resolved = NoResolved
    /\ IdleSlots

ConcNext ==
    \/ \E r \in Concurrent : SignalStep(r)
    \/ HealthStep(Second)

ConcSpec ==
    /\ ConcInit
    /\ [][ConcNext]_vars
    /\ WF_vars(SignalStep(Second) \/ HealthStep(Second))

\* n slashes
Slashes(n) == [k \in 1..n |-> "/"]

ExampleCom == <<"e", "x", "a", "m", "p", "l", "e", ".", "c", "o", "m">>

\* Base addresses passed to get_full_url: with and without a scheme, a host
\* or none, a path prefix, a trailing slash; and addresses cut short inside
\* their scheme.
UrlBases ==
    {sch \o host \o path :
        sch \in {<<>>, Http, Https},
        host \in {<<>>, ExampleCom, <<"h">>},
        path \in {<<>>, Slash, <<"/", "v", "1">>, <<"/", "v", "1", "/">>}}
    \cup {<<"h", "t", "t", "p", ":">>, <<"h", "t", "t", "p", "s", ":", "/">>}

\* Endpoints passed to get_full_url (lines 40-43 and 156), and two more.
UrlEndpoints ==
    {<<>>, <<"s", "e", "n", "d">>, <<"a", "n", "a", "l", "y", "z", "e">>,
     <<"m", "a", "t", "c", "h">>, <<"h", "e", "a", "l", "t", "h">>,
     <<"/", "a", "n", "a", "l", "y", "z", "e">>, <<"a", "/", "b">>}

\* get_full_url on its own: the arguments, and the numbers of slashes that
\* a second call adds behind the base and before the endpoint.
UrlInit ==
    /\ env = EnvHosts
    /\ started = "init"
    /\ mocks = Live
    /\ firstReply = NoReply
    /\ resolved \in [done : {FALSE}, base : UrlBases, endpoint : UrlEndpoints,
                     trailing : 0..MaxSlashes, leading : 0..MaxSlashes]
    /\ IdleSlots

\* Lines 28-32, called with the arguments and with the padded arguments.
resolve_url ==
    /\ ~resolved.done
    /\ "base" \in DOMAIN resolved
    /\ resolved' =
        [done |-> TRUE, base |-> resolved.base, endpoint |-> resolved.endpoint,
         trailing |-> resolved.trailing, leading |-> resolved.leading,
         url |-> get_full_url(resolved.base, resolved.endpoint),
         padded |-> get_full_url(resolved.base \o Slashes(resolved.trailing),
                                 Slashes(resolved.leading) \o resolved.endpoint)]
    /\ UNCHANGED <<env, started, mocks, firstReply, pc, inbound, signal, urls, matcher,
                   calls, task, responses, arrival, idx, results, keyOf, reply, health,
                   probed>>

UrlNext == resolve_url

UrlSpec == UrlInit /\ [][UrlNext]_vars

(* ------------------------------- claims ------------------------------- *)

\* The signal has every required field.
Valid(sig) == RequiredSet \subseteq DOMAIN sig

\* The logical name of a service, as a results key.
ServiceName(s) ==
    CASE s = "telegram" -> <<"t", "e", "l", "e", "g", "r", "a", "m">>
      [] s = "ai_signal" -> <<"a", "i", "_", "s", "i", "g", "n", "a", "l">>
      [] s = "news_ai" -> <<"n", "e", "w", "s", "_", "a", "i">>
      [] s = "subscriber_matcher" ->
            <<"s", "u", "b", "s", "c", "r", "i", "b", "e", "r", "_",
              "m", "a", "t", "c", "h", "e", "r">>

\* The error descriptors a call to service s can leave in results.
ErrorDescriptors(s) ==
    {[error |-> t] : t \in {BodyText(s), JsonErrorText(s), ReadErrorText(s),
                            ExcText(s, TransportError)}}

\* Every value results can hold for service s.
EntriesOf(s) == {JsonBody(s)} \cup ErrorDescriptors(s)

\* results holds an entry that came from service s.
HasEntry(res, s) == \E k \in DOMAIN res : res[k] \in EntriesOf(s)

\* Fan-out task i of request r did not end in a parsed 200 response.
TaskFailed(r, i) ==
    \/ responses[r][i].kind = "exception"
    \/ /\ responses[r][i].kind = "response"
       /\ ~(responses[r][i].status = 200 /\ responses[r][i].readable
            /\ responses[r][i].json)

\* C1: for every valid signal and every combination of call outcomes, the
\* results returned by POST /signal hold a distinct entry for each of the four
\* configured dependencies (one key per dependency).
C1_ResultKeyCoverage ==
    \A r \in Requests :
        (pc[r] = "replied" /\ Valid(inbound[r])) =>
            /\ reply[r].code = 200
            /\ Cardinality(DOMAIN reply[r].results) = Cardinality(Services)
            /\ \A s \in Services : HasEntry(reply[r].results, s)

\* C2: a POST /signal whose body lacks a required field is answered with
\* status 400 and a detail naming the missing field.
C2_MissingFieldIs400 ==
    \A r \in Requests :
        (pc[r] = "replied" /\ ~Valid(inbound[r])) =>
            /\ reply[r].code = 400
            /\ reply[r].detail = "Missing required field: " \o MissingFields(inbound[r])[1]

\* C3: no outbound call is issued before the required-field check has passed,
\* and a request rejected for a missing field has issued no outbound call.
C3_ValidationPrecedesDispatch ==
    \A r \in Requests :
        /\ (\E s \in Services : calls[r][s] # <<>>) =>
                (Valid(inbound[r]) /\ pc[r] \notin {"idle", "validate"})
        /\ (pc[r] = "replied" /\ ~Valid(inbound[r])) =>
                \A s \in Services : calls[r][s] = <<>>

\* C3 witness: a request with a missing field has been answered, with no call made.
C3_Witness ==
    \E r \in Requests :
        /\ pc[r] = "replied"
        /\ MissingFields(inbound[r]) # <<>>
        /\ reply[r].code >= 400
        /\ \A s \in Services : calls[r][s] = <<>>

\* C4: when the subscriber-matching call does not succeed, ai_signal, news_ai
\* and telegram are still all called, the request is answered with success and
\* results holds a result for each of the three.
C4_MatcherFailureNonBlocking ==
    \A r \in Requests :
        (pc[r] = "replied" /\ Valid(inbound[r]) /\ matcher[r] # NoOutcome
                /\ ~MatchSucceeds(matcher[r])) =>
            /\ reply[r].code = 200
            /\ \A s \in FanoutServices : Len(calls[r][s]) >= 1
            /\ \A s \in FanoutServices : HasEntry(reply[r].results, s)

\* C5: for a valid signal and any subset of fan-out calls failing, POST /signal
\* answers {status: "success", results} and each failed call appears in results
\* as an error descriptor; a failure response is given only to an invalid signal
\* or on an orchestration fault (an address that is not set).
C5_FailuresNeverEscalate ==
    \A r \in Requests :
        pc[r] = "replied" =>
            /\ (Valid(inbound[r]) /\ required_env_vars \subseteq DOMAIN env) =>
                    /\ reply[r].code = 200
                    /\ reply[r].status = "success"
                    /\ \A i \in Tasks : TaskFailed(r, i) =>
                            \E k \in DOMAIN reply[r].results :
                                reply[r].results[k] \in ErrorDescriptors(TaskService[i])
            /\ reply[r].code # 200 =>
                    (~Valid(inbound[r]) \/ ~(required_env_vars \subseteq DOMAIN env))

\* C6: the entry of each fan-out call is stored under the logical name of its
\* service, whatever the outcome of the call.
C6_KeyedByServiceName ==
    \A r \in Requests : \A i \in Tasks :
        keyOf[r][i] # <<>> => keyOf[r][i] = ServiceName(TaskService[i])

\* C7: the same signal dispatched twice, every downstream answering both
\* dispatches in the same way, gives results with the same set of keys.
C7_IdempotentKeys ==
    \A r \in Requests :
        (pc[r] = "replied" /\ firstReply.code = 200 /\ reply[r].code = 200) =>
            DOMAIN reply[r].results = DOMAIN firstReply.results

\* C7 witness: the second dispatch has been answered, and its signal carried
\* the chat_ids the first dispatch added.
C7_Witness ==
    \E r \in Requests :
        /\ pc[r] = "replied"
        /\ firstReply.code = 200
        /\ reply[r].code = 200
        /\ reply[r].results # <<>>
        /\ "chat_ids" \in DOMAIN inbound[r]
        /\ inbound[r]["chat_ids"] # ClientChatIds

\* C8 as claimed: every fan-out payload is the inbound signal with each
\* original key and value unchanged, plus chat_ids holding the matched chat ids
\* if and only if matching succeeded; otherwise exactly the inbound signal.
C8_PayloadIsSignalPlusChatIds ==
    \A r \in Requests : \A s \in FanoutServices : \A n \in 1..Len(calls[r][s]) :
        LET P == calls[r][s][n]
        IN  /\ \A k \in DOMAIN inbound[r] : k \in DOMAIN P /\ P[k] = inbound[r][k]
            /\ MatchSucceeds(matcher[r]) =>
                    /\ DOMAIN P = DOMAIN inbound[r] \cup {"chat_ids"}
                    /\ P["chat_ids"] = ChatIds(matcher[r])
            /\ ~MatchSucceeds(matcher[r]) => P = inbound[r]

\* C8 amended: every fan-out payload is the same document: when matching
\* succeeded, the inbound signal with every key other than chat_ids unchanged
\* and chat_ids set to the matched chat ids (replacing chat_ids the client
\* sent); when it did not, exactly the inbound signal.
C8_PayloadEnriched ==
    \A r \in Requests : \A s \in FanoutServices : \A n \in 1..Len(calls[r][s]) :
        LET P == calls[r][s][n]
        IN  /\ \A t \in FanoutServices : \A m \in 1..Len(calls[r][t]) : calls[r][t][m] = P
            /\ MatchSucceeds(matcher[r]) =>
                    /\ DOMAIN P = DOMAIN inbound[r] \cup {"chat_ids"}
                    /\ \A k \in DOMAIN inbound[r] \ {"chat_ids"} : P[k] = inbound[r][k]
                    /\ P["chat_ids"] = ChatIds(matcher[r])
            /\ ~MatchSucceeds(matcher[r]) => P = inbound[r]

\* C8 witness: all three payloads were sent after a successful match, for a
\* signal that arrived with chat_ids of its own.
C8_Witness ==
    \E r \in Requests :
        /\ \A s \in FanoutServices : Len(calls[r][s]) = 1
        /\ MatchSucceeds(matcher[r])
        /\ ChatIds(matcher[r]) # <<>>
        /\ "chat_ids" \in DOMAIN inbound[r]

\* C9: at the end of GET /health the composite status is "healthy" if and only
\* if every one of the four dependencies is reported "healthy", and "degraded"
\* in every other case.
C9_CompositeHealthy ==
    \A r \in Requests :
        pc[r] = "health_replied" =>
            reply[r].status =
                IF \A s \in Services :
                        /\ s \in DOMAIN reply[r].dependencies
                        /\ reply[r].dependencies[s] = "healthy"
                THEN "healthy"
                ELSE "degraded"

\* C9 witness: a health report whose only fault is a probe that raised.
C9_Witness ==
    \E r \in Requests :
        /\ pc[r] = "health_replied"
        /\ reply[r].status = "degraded"
        /\ \E s \in Services :
            /\ probed[r][s].kind = "exception"
            /\ \A t \in Services \ {s} : reply[r].dependencies[t] = "healthy"

\* C10: GET /health always answers with a report holding one entry per
\* dependency: missing_url when its address is not set, healthy when the probe
\* returned 200, unhealthy_<code> for another status, error_<message> when the
\* probe raised; an address that is not set makes the composite "degraded".
C10_HealthReport ==
    \A r \in Requests :
        /\ pc[r] \in {"health", "health_return", "health_replied"} =>
                reply[r].code \in {0, 200}
        /\ pc[r] = "health_replied" =>
            /\ reply[r].code = 200
            /\ DOMAIN reply[r].dependencies = Services
            /\ \A s \in Services :
                LET d == reply[r].dependencies[s]
                    o == probed[r][s]
                IN  IF ~EnvSet(env, EnvVar[s])
                    THEN d = "missing_url" /\ o.kind = "skipped"
                              /\ reply[r].status = "degraded"
                    ELSE /\ o.kind \in {"response", "exception"}
                         /\ o.kind = "exception" => d = "error_" \o o.msg
                         /\ (o.kind = "response" /\ o.status = 200) => d = "healthy"
                         /\ (o.kind = "response" /\ o.status # 200) =>
                                d = "unhealthy_" \o ToString(o.status)

\* C10 witness: a report made with exactly one address not set, the other
\* three probes ending in a 200, another status and an exception.
C10_Witness ==
    \E r \in Requests :
        /\ pc[r] = "health_replied"
        /\ Cardinality({s \in Services : ~EnvSet(env, EnvVar[s])}) = 1
        /\ \E s \in Services : probed[r][s].kind = "exception"
        /\ \E s \in Services : probed[r][s].kind = "response" /\ probed[r][s].status = 200
        /\ \E s \in Services : probed[r][s].kind = "response" /\ probed[r][s].status # 200

\* The base as get_full_url treats it: given the https scheme unless it
\* starts with http:// or https://.
WithScheme(b) ==
    IF StartsWith(b, Http) \/ StartsWith(b, Https) THEN b ELSE Https \o b

\* u is p without all the slashes it ends with, one slash, and e without all
\* the slashes it starts with.
JoinedOnce(u, p, e) ==
    \E m \in 0..Len(p), n \in 0..Len(e) :
        /\ SubSeq(p, Len(p) - m + 1, Len(p)) = Slashes(m)
        /\ m < Len(p) => p[Len(p) - m] # "/"
        /\ SubSeq(e, 1, n) = Slashes(n)
        /\ n < Len(e) => e[n + 1] # "/"
        /\ u = SubSeq(p, 1, Len(p) - m) \o Slash \o SubSeq(e, n + 1, Len(e))

ExampleUrl == Https \o ExampleCom \o <<"/", "a", "n", "a", "l", "y", "z", "e">>

\* The shape of the result, and the two examples.
UrlShape ==
    resolved.done =>
        /\ JoinedOnce(resolved.url, WithScheme(resolved.base), resolved.endpoint)
        /\ (resolved.base \in {ExampleCom, Https \o ExampleCom \o Slash}
               /\ LStrip(resolved.endpoint) = <<"a", "n", "a", "l", "y", "z", "e">>)
              => resolved.url = ExampleUrl

AddressMissing == \E v \in required_env_vars : ~EnvSet(env, v)

\* C12: when a required address is absent or empty at startup the process
\* never serves: it does not reach "serving", no request is taken up and no
\* response is sent; and no response reports a missing address: an error
\* response to POST /signal is for a missing field only, and no health report
\* has a missing_url entry.
C12_FailFast ==
    /\ AddressMissing =>
          /\ started # "serving"
          /\ \A r \in Requests : pc[r] = "idle" /\ reply[r] = NoReply
    /\ \A r \in Requests :
          /\ (pc[r] = "replied" /\ reply[r].code # 200) => ~Valid(inbound[r])
          /\ pc[r] \in {"health", "health_return", "health_replied"} =>
                \A s \in DOMAIN health[r].dependencies :
                    health[r].dependencies[s] # "missing_url"

C12_Witness ==
    /\ AddressMissing
    /\ started = "crashed"

\* Fan-out task i of request r was started: its request was sent.
Started(r, i) == task[r][i] \in {"pending", "settled"}

\* C13: no fan-out call is created, started or sent before the matcher call
\* has settled (with a response or an exception).
C13_MatcherBeforeFanout ==
    \A r \in Requests :
        (\/ \E i \in Tasks : task[r][i] # "none"
         \/ \E s \in FanoutServices : calls[r][s] # <<>>)
            => /\ matcher[r] # NoOutcome
               /\ Len(calls[r]["subscriber_matcher"]) = 1

C13_Witness ==
    \E r \in Requests :
        /\ matcher[r].kind = "exception"
        /\ Started(r, 0)
        /\ calls[r]["ai_signal"] # <<>>
        /\ task[r][1] = "scheduled"

\* All three fan-out calls of request r were sent, once each, and settled.
AllSettled(r) ==
    \A i \in Tasks :
        /\ task[r][i] = "settled"
        /\ responses[r][i] # NoOutcome
        /\ Len(calls[r][TaskService[i]]) = 1

\* C14: while distribute_signal waits in gather all three calls exist, and no
\* response is taken in before all three were sent; results is built, and a
\* valid signal is answered, only after all three calls were sent and have
\* settled, whatever the other calls ended in.
C14_WaitForAll ==
    \A r \in Requests :
        /\ pc[r] = "gather" => \A i \in Tasks : task[r][i] # "none"
        /\ \A i \in Tasks :
              (task[r][i] = "settled" /\ responses[r][i].kind = "response")
                  => \A j \in Tasks : Started(r, j)
        /\ (pc[r] \in {"collect", "return"} \/ results[r] # <<>>) => AllSettled(r)
        /\ (pc[r] = "replied" /\ Valid(inbound[r])) =>
              /\ AllSettled(r)
              /\ reply[r].code = 200

C14_Witness ==
    \E r \in Requests :
        /\ pc[r] = "replied"
        /\ reply[r].code = 200
        /\ arrival[r] = <<0, 2, 1>>
        /\ responses[r][0].kind = "exception"
        /\ responses[r][1].kind = "response"
        /\ responses[r][2].kind = "response"
        /\ AllSettled(r)

\* C15: with the outcome of every service fixed, the results of a dispatch
\* are those of the dispatch before it, in whatever order the calls of either
\* dispatch completed.
C15_OrderIndependent ==
    \A r \in Requests :
        firstReply.code = 200 =>
            /\ pc[r] = "return" => results[r] = firstReply.results
            /\ pc[r] = "replied" =>
                  /\ reply[r].code = 200
                  /\ reply[r].results = firstReply.results

C15_Witness ==
    \E r \in Requests :
        /\ firstReply.code = 200
        /\ pc[r] = "replied"
        /\ arrival[r] = <<2, 1, 0>>
        /\ keyOf[r][0] = keyOf[r][1]
        /\ responses[r][0].status # responses[r][1].status
        /\ reply[r].results = firstReply.results

\* C16: while one signal is handled no service is sent a second request,
\* whatever its first ended in; and when a valid signal has been answered
\* each of the four services was sent exactly one.
C16_NoRetries ==
    \A r \in Requests :
        /\ \A s \in Services : Len(calls[r][s]) <= 1
        /\ (pc[r] = "replied" /\ Valid(inbound[r])) =>
              \A s \in Services : Len(calls[r][s]) = 1

C16_Witness ==
    \E r \in Requests :
        /\ pc[r] = "replied"
        /\ Valid(inbound[r])
        /\ matcher[r].kind = "exception"
        /\ \A i \in Tasks : TaskFailed(r, i)
        /\ \A s \in Services : Len(calls[r][s]) = 1

\* The loop of request r has just stored the entry of task i.
JustStored(r, i) ==
    /\ pc[r] \in {"collect", "return"}
    /\ idx[r] = i + 1

\* C17: the entry of a call is the parsed body exactly when the
\* response has status 200 and a body that is JSON; the raw body text, as an
\* error, for a response of any other status; the exception message, as an
\* error, for a transport exception and for a 200 whose body is not JSON.
C17_Classification ==
    \A r \in Requests : \A i \in Tasks :
        JustStored(r, i) =>
            LET o == responses[r][i]
                s == TaskService[i]
                e == results[r][keyOf[r][i]]
            IN  /\ e = JsonBody(s) <=>
                      (o.kind = "response" /\ o.status = 200 /\ o.parses)
                /\ (o.kind = "response" /\ o.status # 200) => e = [error |-> BodyText(s)]
                /\ o.kind = "exception" => e = [error |-> o.msg]
                /\ (o.kind = "response" /\ o.status = 200 /\ ~o.parses) =>
                      e \in {[error |-> JsonErrorText(s)], [error |-> ReadErrorText(s)]}

\* The loop of request r has stored the entry of task i.
Stored(r, i) ==
    /\ pc[r] \in {"collect", "return", "replied"}
    /\ Valid(inbound[r])
    /\ pc[r] = "collect" => i < idx[r]

\* The response of task i of request r was read and, if a 200, parsed.
Taken(r, i) ==
    /\ responses[r][i].kind = "response"
    /\ responses[r][i].readable
    /\ responses[r][i].status = 200 => responses[r][i].json

\* What C19 says of the number of entries, of the matcher and of a shared
\* key: results has an entry under the key of every call stored so far and
\* no other, so at most three and none for the matcher; when ai_signal and
\* news_ai are stored under one key, its entry is that of news_ai, in
\* whatever order the calls completed.
KeysAndSurvivor ==
    \A r \in Requests :
        /\ DOMAIN results[r] = {keyOf[r][i] : i \in {j \in Tasks : Stored(r, j)}}
        /\ Cardinality(DOMAIN results[r]) <= Cardinality(Tasks)
        /\ results[r] # <<>> =>
              UrlPath(urls[r]["subscriber_matcher"]) \notin DOMAIN results[r]
        /\ \A k \in DOMAIN results[r] :
              results[r][k] \in UNION {EntriesOf(s) : s \in FanoutServices}
        /\ (Stored(r, 0) /\ Stored(r, 1) /\ keyOf[r][0] = keyOf[r][1]) =>
              results[r][keyOf[r][1]] \in EntriesOf("news_ai")

\* C19 as stated: a call that returned an HTTP response is keyed by the path
\* of the response URL, a call that raised by "service_<index>"; at most
\* three entries, none for the matcher, and news_ai survives on a shared key.
C19_KeyedByPathOrIndex ==
    /\ KeysAndSurvivor
    /\ \A r \in Requests : \A i \in Tasks :
          Stored(r, i) =>
              keyOf[r][i] = IF responses[r][i].kind = "response"
                            THEN UrlPath(urls[r][TaskService[i]])
                            ELSE ServiceKey(i)

\* C19: a call is keyed by the path of the response URL when it returned a
\* response whose body was read and, for a 200, parsed by resp.json(); by
\* "service_<index>" when it raised, when its body could not be read, and
\* when it was a 200 of which resp.json() raised; at most three entries, none
\* for the matcher, and news_ai survives on a shared key.
C19_KeyedByPathWhenTaken ==
    /\ KeysAndSurvivor
    /\ \A r \in Requests : \A i \in Tasks :
          Stored(r, i) =>
              keyOf[r][i] = IF Taken(r, i)
                            THEN UrlPath(urls[r][TaskService[i]])
                            ELSE ServiceKey(i)

C19_Witness ==
    \E r \in Requests :
        /\ pc[r] = "return"
        /\ arrival[r] = <<1, 0, 2>>
        /\ Taken(r, 0) /\ responses[r][0].status = 200
        /\ Taken(r, 1) /\ responses[r][1].status = 500
        /\ keyOf[r][0] = keyOf[r][1]
        /\ responses[r][2].kind = "response" /\ ~Taken(r, 2)
        /\ keyOf[r][2] = ServiceKey(2)
        /\ Cardinality(DOMAIN results[r]) = 2
        /\ results[r][keyOf[r][0]] = [error |-> BodyText("news_ai")]

\* Request r is waiting for a downstream call to be answered.
Waiting(r) ==
    \/ pc[r] = "matching"
    \/ pc[r] = "gather" /\ \E i \in Tasks : task[r][i] = "pending"

\* Everything request r holds comes from its own signal and from the answers
\* to its own calls.
OwnAnswers(r) ==
    /\ matcher[r] # NoOutcome => matcher[r] = mocks.matcher[r]
    /\ \A n \in 1..Len(calls[r]["subscriber_matcher"]) :
          calls[r]["subscriber_matcher"][n] = inbound[r]
    /\ \A i \in Tasks :
          /\ \A n \in 1..Len(calls[r][TaskService[i]]) :
                calls[r][TaskService[i]][n] =
                    IF MatchSucceeds(mocks.matcher[r])
                    THEN DictSet(inbound[r], "chat_ids", <<101>>)
                    ELSE inbound[r]
          /\ responses[r][i] # NoOutcome =>
                /\ responses[r][i].kind = mocks.fanout[r][i].kind
                /\ responses[r][i].kind = "response" =>
                      /\ responses[r][i].status = mocks.fanout[r][i].status
                      /\ responses[r][i].json = mocks.fanout[r][i].json
    /\ \A k \in DOMAIN results[r] :
          \E i \in Tasks :
              results[r][k] =
                  IF mocks.fanout[r][i].kind = "exception"
                  THEN [error |-> ExcText(TaskService[i], mocks.fanout[r][i])]
                  ELSE IF mocks.fanout[r][i].json THEN JsonBody(TaskService[i])
                  ELSE IF mocks.fanout[r][i].status = 200
                       THEN [error |-> JsonErrorText(TaskService[i])]
                  ELSE [error |-> BodyText(TaskService[i])]
    /\ (pc[r] = "replied" /\ reply[r].code = 200) =>
          /\ reply[r].results = results[r]
          /\ results[r] # <<>>

\* C18: the results of each of two concurrent requests come from its own
\* signal and its own calls and never from the other request's; and a
\* second request, once received, is answered whenever its own calls are
\* answered, also when the calls of the first never are.
C18_Progress ==
    /\ [](\A r \in Concurrent : OwnAnswers(r))
    /\ (pc[Second] # "idle") ~> (pc[Second] \in {"replied", "health_replied"})

C18_Witness ==
    /\ Waiting(1)
    /\ pc[1] = "gather"
    /\ pc[Second] = "replied"
    /\ reply[Second].code = 200
    /\ Cardinality(DOMAIN reply[Second].results) >= 2

====
